---- MODULE Spec2Model ----
(***************************************************************************)
(* A model of mini-codex: the Session / Message store (session.py), the    *)
(* ToolExecutor with its path containment (tools.py) and the Agent turn    *)
(* loop (agent.py).                                                        *)
(*                                                                         *)
(* Python values are represented as follows.                               *)
(*   - an optional value (x | None) is a sequence of length <= 1:          *)
(*     None is <<>> and a set value x is <<x>>;                            *)
(*   - str values that the code only stores, compares or concatenates are  *)
(*     TLA+ strings; str values the code looks into (paths, process        *)
(*     output) are sequences of one-character strings, turned into a       *)
(*     string by Str where the code formats them into a message;           *)
(*   - a list is a sequence, a dict is a function on its keys.             *)
(***************************************************************************)
EXTENDS Integers, Sequences, FiniteSets, TLC

VARIABLES
    session,            \* Agent.session : Session
    user_calls,         \* number of add_user_message calls made on the session
    calls_since_clear,  \* ... of them, those made after the latest clear()
    config,             \* Agent.config : AgentConfig (max_turns, auto_approve_tools)
    approval_callback,  \* Agent.approval_callback : None or a callback
    entry,              \* entry point of the run in progress: "run" or "run_sync"
    pc,                 \* position of Agent.run
    turn_count,         \* local turn_count of Agent.run
    message,            \* local message of Agent.run (the model's response)
    idx,                \* position of the for loop over message.tool_calls
    tool_results,       \* local tool_results of Agent.run
    turns,              \* the TurnResults the run has yielded so far
    result,             \* local result of Agent.run_sync
    returned,           \* the value the entry point returned to its caller
    log,                \* calls made by the run: model, gate, executor
    exec_in,            \* a call ToolExecutor.execute(tool_name, arguments)
    exec_out            \* and what it did

vars == <<session, user_calls, calls_since_clear, config, approval_callback,
          entry, pc, turn_count, message, idx, tool_results, turns, result,
          returned, log, exec_in, exec_out>>

sessionVars == <<session, user_calls, calls_since_clear>>
agentVars == <<config, approval_callback>>
runVars == <<entry, pc, turn_count, message, idx, tool_results, turns, result,
             returned, log>>
execVars == <<exec_in, exec_out>>

----------------------------------------------------------------------------
(* Optional values and Python truthiness *)

None == <<>>

Some(x) == <<x>>

\* bool(x) of a str | None value: set and not the empty string
TruthyStr(opt) == opt # None /\ opt[1] # ""

\* bool(x) of a list | None value: set and not the empty list
TruthyList(opt) == opt # None /\ opt[1] # <<>>

\* "".join(chars)
RECURSIVE Str(_)
Str(chars) == IF chars = <<>> THEN "" ELSE Head(chars) \o Str(Tail(chars))

----------------------------------------------------------------------------
(* session.py: Message *)

Message(role, content, tool_calls, tool_call_id, name) ==
    [role |-> role, content |-> content, tool_calls |-> tool_calls,
     tool_call_id |-> tool_call_id, name |-> name]

\* Message.to_api_format: a dict holding "role" and the optional fields the
\* code's tests let through
to_api_format(msg) ==
    LET keys == {"role"}
                \cup (IF msg.content # None THEN {"content"} ELSE {})
                \cup (IF TruthyList(msg.tool_calls) THEN {"tool_calls"} ELSE {})
                \cup (IF TruthyStr(msg.tool_call_id) THEN {"tool_call_id"} ELSE {})
                \cup (IF TruthyStr(msg.name) THEN {"name"} ELSE {})
    IN  [k \in keys |-> IF k = "role" THEN msg.role ELSE msg[k][1]]

\* dict.get(key): the value, or None
dict_get(d, key) == IF key \in DOMAIN d THEN Some(d[key]) ELSE None

----------------------------------------------------------------------------
(* session.py: Session *)

KeepRecent == 10

\* Session.__init__ / __post_init__
NewSession(working_dir, system_prompt, messages, created_at, count) ==
    [working_dir |-> working_dir,
     system_prompt |-> system_prompt,
     messages |-> IF system_prompt # "" /\ messages = <<>>
                  THEN <<Message("system", Some(system_prompt), None, None, None)>>
                  ELSE messages,
     created_at |-> created_at,
     turn_count |-> count]

add_user_message(s, content) ==
    [s EXCEPT !.messages = Append(@, Message("user", Some(content), None, None, None)),
              !.turn_count = @ + 1]

add_assistant_message(s, content, tool_calls) ==
    [s EXCEPT !.messages = Append(@, Message("assistant", content, tool_calls, None, None))]

\* add_tool_result binding the result to the tool's name instead of the id
add_tool_result_by_name(s, tool_call_id, name, text) ==
    [s EXCEPT !.messages =
        Append(@, Message("tool", Some(text), None, Some(name), Some(name)))]

add_tool_result(s, tool_call_id, name, text) ==
    [s EXCEPT !.messages =
        Append(@, Message("tool", Some(text), None, Some(tool_call_id), Some(name)))]

get_api_messages(s) == [i \in 1..Len(s.messages) |-> to_api_format(s.messages[i])]

\* the messages[-10:] slice
LastN(seq, n) == IF Len(seq) <= n THEN seq ELSE SubSeq(seq, Len(seq) - n + 1, Len(seq))

LeadingSystem(s) ==
    IF s.messages # <<>> /\ s.messages[1].role = "system" THEN <<s.messages[1]>> ELSE <<>>

CompactionMessage(summary) ==
    Message("system", Some("[CONVERSATION SUMMARY]\n" \o summary \o "\n[END SUMMARY]"),
            None, None, None)

\* compact without the leading system message
compact_without_system(s, summary) ==
    [s EXCEPT !.messages =
        <<CompactionMessage(summary)>> \o
        (IF Len(s.messages) > KeepRecent THEN LastN(s.messages, KeepRecent) ELSE <<>>)]

\* compact with the summary put after the recent messages
compact_summary_last(s, summary) ==
    [s EXCEPT !.messages =
        LeadingSystem(s) \o
        (IF Len(s.messages) > KeepRecent THEN LastN(s.messages, KeepRecent) ELSE <<>>)
        \o <<CompactionMessage(summary)>>]

compact(s, summary) ==
    LET recent_messages == IF Len(s.messages) > KeepRecent
                           THEN LastN(s.messages, KeepRecent) ELSE <<>>
    IN  [s EXCEPT !.messages =
            LeadingSystem(s) \o <<CompactionMessage(summary)>> \o recent_messages]

\* clear dropping the leading system message too
clear_everything(s) == [s EXCEPT !.messages = <<>>, !.turn_count = 0]

\* clear without the reset of turn_count
clear_keeping_turn_count(s) == [s EXCEPT !.messages = LeadingSystem(s)]

clear(s) == [s EXCEPT !.messages = LeadingSystem(s), !.turn_count = 0]

\* datetime.isoformat / datetime.fromisoformat on the creation time, kept
\* as the pair (seconds, microseconds)
isoformat(t) == <<"iso", t[1], t[2]>>

fromisoformat(text) == <<text[2], text[3]>>

\* Session.save: the dict written as JSON
save(s) ==
    [working_dir |-> s.working_dir,
     system_prompt |-> s.system_prompt,
     messages |-> get_api_messages(s),
     created_at |-> isoformat(s.created_at),
     turn_count |-> s.turn_count]

\* Session.load: the constructor runs __post_init__ and then the messages
\* are replaced by the stored ones
load(data) ==
    LET made == NewSession(data.working_dir, data.system_prompt, <<>>,
                           fromisoformat(data.created_at), data.turn_count)
    IN  [made EXCEPT !.messages =
            [i \in 1..Len(data.messages) |->
                Message(data.messages[i].role,
                        dict_get(data.messages[i], "content"),
                        dict_get(data.messages[i], "tool_calls"),
                        dict_get(data.messages[i], "tool_call_id"),
                        dict_get(data.messages[i], "name"))]]

----------------------------------------------------------------------------
(* tools.py: ToolResult, and what a handler does: it returns a ToolResult  *)
(* or raises, after a sequence of filesystem / subprocess effects          *)

ToolResult(success, output, error) ==
    [success |-> success, output |-> output, error |-> error]

NoResult == ToolResult(FALSE, "", None)

Return(res, effects) ==
    [kind |-> "return", result |-> res, exc |-> "", effects |-> effects]

\* exc is str(e) of the exception raised
Raise(exc, effects) ==
    [kind |-> "raise", result |-> NoResult, exc |-> exc, effects |-> effects]

Effect(op, target, cwd) == [op |-> op, target |-> target, cwd |-> cwd]

\* the arguments value: a JSON object (a dict) or any other JSON value
Dict(items) == [kind |-> "dict", items |-> items]

NotADict == [kind |-> "list", items |-> <<>>]

\* args.get(key, default)
args_get(args, key, default) ==
    IF key \in DOMAIN args.items THEN args.items[key] ELSE default

----------------------------------------------------------------------------
(* os.path.join, os.path.normpath (posixpath) and str.startswith, on       *)
(* sequences of characters                                                 *)

startswith(s, prefix) ==
    Len(s) >= Len(prefix) /\ SubSeq(s, 1, Len(prefix)) = prefix

endswith(s, suffix) ==
    Len(s) >= Len(suffix) /\ SubSeq(s, Len(s) - Len(suffix) + 1, Len(s)) = suffix

os_path_join(a, p) ==
    IF startswith(p, <<"/">>) THEN p
    ELSE IF a = <<>> \/ endswith(a, <<"/">>) THEN a \o p
    ELSE a \o <<"/">> \o p

\* path.split("/"), cur being the component read so far
RECURSIVE split(_, _)
split(s, cur) ==
    IF s = <<>> THEN <<cur>>
    ELSE IF Head(s) = "/" THEN <<cur>> \o split(Tail(s), <<>>)
    ELSE split(Tail(s), Append(cur, Head(s)))

\* "/".join(comps)
RECURSIVE slash_join(_)
slash_join(comps) ==
    IF comps = <<>> THEN <<>>
    ELSE IF Len(comps) = 1 THEN comps[1]
    ELSE comps[1] \o <<"/">> \o slash_join(Tail(comps))

\* the loop of normpath over the components
RECURSIVE norm_comps(_, _, _)
norm_comps(comps, new_comps, initial_slashes) ==
    IF comps = <<>> THEN new_comps
    ELSE LET comp == Head(comps)
             rest == Tail(comps)
         IN  IF comp = <<>> \/ comp = <<".">>
             THEN norm_comps(rest, new_comps, initial_slashes)
             ELSE IF \/ comp # <<".", ".">>
                     \/ (initial_slashes = 0 /\ new_comps = <<>>)
                     \/ (new_comps # <<>> /\ new_comps[Len(new_comps)] = <<".", ".">>)
             THEN norm_comps(rest, Append(new_comps, comp), initial_slashes)
             ELSE IF new_comps # <<>>
             THEN norm_comps(rest, SubSeq(new_comps, 1, Len(new_comps) - 1), initial_slashes)
             ELSE norm_comps(rest, new_comps, initial_slashes)

\* the number of leading slashes normpath keeps: 0, 1 or 2
initial_slashes_of(path) ==
    IF ~startswith(path, <<"/">>) THEN 0
    ELSE IF startswith(path, <<"/", "/">>) /\ ~startswith(path, <<"/", "/", "/">>)
    THEN 2 ELSE 1

\* path = "/" * initial_slashes + path; return path or "."
normpath_result(initial_slashes, joined) ==
    IF initial_slashes = 0 /\ joined = <<>> THEN <<".">>
    ELSE (IF initial_slashes = 2 THEN <<"/", "/">>
          ELSE IF initial_slashes = 1 THEN <<"/">> ELSE <<>>) \o joined

normpath_with(path, initial_slashes) ==
    normpath_result(initial_slashes,
                    slash_join(norm_comps(split(path, <<>>), <<>>, initial_slashes)))

normpath(path) ==
    IF path = <<>> THEN <<".">> ELSE normpath_with(path, initial_slashes_of(path))

----------------------------------------------------------------------------
(* tools.py: ToolExecutor *)

\* ToolExecutor.__init__: timeout
timeout == 30

\* ToolExecutor._resolve_path: the resolved path, or ValueError
resolve_check(working_dir, path, resolved) ==
    IF ~startswith(resolved, working_dir)
    THEN [ok |-> FALSE, resolved |-> resolved,
          exc |-> "Path " \o Str(path) \o " is outside working directory"]
    ELSE [ok |-> TRUE, resolved |-> resolved, exc |-> ""]

_resolve_path(working_dir, path) ==
    resolve_check(working_dir, path, normpath(os_path_join(working_dir, path)))

\* str.strip()
Whitespace == {" ", "\n", "\t"}

RECURSIVE lstrip(_)
lstrip(s) == IF s # <<>> /\ Head(s) \in Whitespace THEN lstrip(Tail(s)) ELSE s

RECURSIVE rstrip(_)
rstrip(s) ==
    IF s # <<>> /\ s[Len(s)] \in Whitespace THEN rstrip(SubSeq(s, 1, Len(s) - 1)) ELSE s

strip(s) == rstrip(lstrip(s))

StderrMark == <<"\n", "[", "s", "t", "d", "e", "r", "r", "]", "\n">>

\* What the operating system answers during one call (env):
\*   exists, isfile  os.path.exists / os.path.isfile of the resolved path
\*   io              "ok", or "error" when open / makedirs / listdir raise OSError
\*   tmp_write       "ok", or "error" when writing the patch text to the
\*                   temporary file raises
\*   proc            the subprocess: "exit0", "exit1", "timeout" (TimeoutExpired)
\*                   or "absent" (FileNotFoundError: no such program)
\*   stdout, stderr  what the subprocess printed
\*   content         the text of the file read
\*   entries         sorted(os.listdir(resolved)), each with os.path.isdir
returncode(env) == IF env.proc = "exit0" THEN 0 ELSE 1

NotADictError == "'list' object has no attribute 'get'"

shell_command(working_dir, command, env, run) ==
    IF command = "" THEN Return(ToolResult(FALSE, "", Some("No command provided")), <<>>)
    ELSE IF env.proc = "timeout"
    THEN Return(ToolResult(FALSE, "",
                Some("Command timed out after " \o ToString(timeout) \o "s")), run)
    ELSE IF env.proc = "absent" THEN Raise("[Errno 2] No such file or directory", run)
    ELSE Return(ToolResult(returncode(env) = 0,
                    Str(strip(env.stdout \o (IF env.stderr # <<>>
                                             THEN StderrMark \o env.stderr ELSE <<>>))),
                    IF returncode(env) = 0 THEN None
                    ELSE Some("Exit code: " \o ToString(returncode(env)))), run)

_execute_shell(working_dir, args, env) ==
    IF args.kind # "dict" THEN Raise(NotADictError, <<>>)
    ELSE shell_command(working_dir, args_get(args, "command", ""), env,
             <<Effect("subprocess", args_get(args, "command", ""), Some(working_dir))>>)

\* _execute_read_file from the call of _resolve_path on (r is what it gave)
read_file_resolved(path, r, env) ==
    IF ~r.ok THEN Raise(r.exc, <<>>)
    ELSE IF ~env.exists
    THEN Return(ToolResult(FALSE, "", Some("File not found: " \o Str(path))),
                <<Effect("exists", r.resolved, None)>>)
    ELSE IF env.io = "error"
    THEN Raise("[Errno 21] Is a directory",
               <<Effect("exists", r.resolved, None), Effect("open_r", r.resolved, None)>>)
    ELSE Return(ToolResult(TRUE, env.content, None),
                <<Effect("exists", r.resolved, None), Effect("open_r", r.resolved, None)>>)

read_file_path(working_dir, path, env) ==
    IF path = <<>> THEN Return(ToolResult(FALSE, "", Some("No path provided")), <<>>)
    ELSE read_file_resolved(path, _resolve_path(working_dir, path), env)

_execute_read_file(working_dir, args, env) ==
    IF args.kind # "dict" THEN Raise(NotADictError, <<>>)
    ELSE read_file_path(working_dir, args_get(args, "path", <<>>), env)

\* _execute_write_file from the call of _resolve_path on
write_file_resolved(path, content, r, env) ==
    IF ~r.ok THEN Raise(r.exc, <<>>)
    ELSE IF env.io = "error"
    THEN Raise("[Errno 13] Permission denied", <<Effect("makedirs", r.resolved, None)>>)
    ELSE Return(ToolResult(TRUE,
                    "Wrote " \o ToString(Len(content)) \o " bytes to " \o Str(path), None),
                <<Effect("makedirs", r.resolved, None), Effect("open_w", r.resolved, None)>>)

write_file_path(working_dir, path, content, env) ==
    IF path = <<>> THEN Return(ToolResult(FALSE, "", Some("No path provided")), <<>>)
    ELSE write_file_resolved(path, content, _resolve_path(working_dir, path), env)

_execute_write_file(working_dir, args, env) ==
    IF args.kind # "dict" THEN Raise(NotADictError, <<>>)
    ELSE write_file_path(working_dir, args_get(args, "path", <<>>),
                         args_get(args, "content", ""), env)

\* "\n".join(entries), each directory with a trailing "/"; entries is
\* sorted(os.listdir(resolved))
RECURSIVE listing(_)
listing(entries) ==
    IF entries = <<>> THEN ""
    ELSE (IF Head(entries).isdir THEN Head(entries).name \o "/" ELSE Head(entries).name)
         \o (IF Len(entries) = 1 THEN "" ELSE "\n" \o listing(Tail(entries)))

\* _execute_list_files from the call of _resolve_path on
list_files_resolved(path, r, env) ==
    IF ~r.ok THEN Raise(r.exc, <<>>)
    ELSE IF ~env.exists
    THEN Return(ToolResult(FALSE, "", Some("Path not found: " \o Str(path))),
                <<Effect("exists", r.resolved, None)>>)
    ELSE IF env.isfile
    THEN Return(ToolResult(TRUE, Str(path), None),
                <<Effect("exists", r.resolved, None), Effect("isfile", r.resolved, None)>>)
    ELSE IF env.io = "error"
    THEN Raise("[Errno 13] Permission denied",
               <<Effect("exists", r.resolved, None), Effect("isfile", r.resolved, None),
                 Effect("listdir", r.resolved, None)>>)
    ELSE Return(ToolResult(TRUE, listing(env.entries), None),
                <<Effect("exists", r.resolved, None), Effect("isfile", r.resolved, None),
                  Effect("listdir", r.resolved, None)>>)

list_files_path(working_dir, path, env) ==
    list_files_resolved(path, _resolve_path(working_dir, path), env)

_execute_list_files(working_dir, args, env) ==
    IF args.kind # "dict" THEN Raise(NotADictError, <<>>)
    ELSE list_files_path(working_dir, args_get(args, "path", <<".">>), env)

\* the NamedTemporaryFile of apply_patch
patch_file == <<"t", "m", "p", ".", "p", "a", "t", "c", "h">>

\* _execute_apply_patch from the call of _resolve_path on: the temporary
\* file is created and written, the patch utility runs without a cwd, and
\* the finally clause unlinks the file
apply_patch_resolved(path, r, env) ==
    IF ~r.ok THEN Raise(r.exc, <<>>)
    ELSE IF env.tmp_write = "error"
    THEN Raise("[Errno 28] No space left on device", <<Effect("mktemp", patch_file, None)>>)
    ELSE IF env.proc = "absent"
    THEN Return(ToolResult(FALSE, "",
            Some("patch command not found. Install patch utility or use write_file instead.")),
            <<Effect("mktemp", patch_file, None), Effect("subprocess", "patch", None),
              Effect("unlink", patch_file, None)>>)
    ELSE IF env.proc = "timeout"
    THEN Raise("Command 'patch' timed out after " \o ToString(timeout) \o " seconds",
            <<Effect("mktemp", patch_file, None), Effect("subprocess", "patch", None),
              Effect("unlink", patch_file, None)>>)
    ELSE IF returncode(env) = 0
    THEN Return(ToolResult(TRUE, "Patch applied to " \o Str(path), None),
            <<Effect("mktemp", patch_file, None), Effect("subprocess", "patch", None),
              Effect("unlink", patch_file, None)>>)
    ELSE Return(ToolResult(FALSE, Str(env.stdout),
            Some(IF env.stderr # <<>> THEN Str(env.stderr)
                 ELSE "Patch failed with exit code " \o ToString(returncode(env)))),
            <<Effect("mktemp", patch_file, None), Effect("subprocess", "patch", None),
              Effect("unlink", patch_file, None)>>)

apply_patch_path(working_dir, path, patch, env) ==
    IF path = <<>> THEN Return(ToolResult(FALSE, "", Some("No path provided")), <<>>)
    ELSE IF patch = "" THEN Return(ToolResult(FALSE, "", Some("No patch provided")), <<>>)
    ELSE apply_patch_resolved(path, _resolve_path(working_dir, path), env)

_execute_apply_patch(working_dir, args, env) ==
    IF args.kind # "dict" THEN Raise(NotADictError, <<>>)
    ELSE apply_patch_path(working_dir, args_get(args, "path", <<>>),
                          args_get(args, "patch", ""), env)

\* the handlers dict of execute
ToolNames == {"shell", "read_file", "write_file", "list_files", "apply_patch"}

handler(tool_name, working_dir, args, env) ==
    CASE tool_name = "shell" -> _execute_shell(working_dir, args, env)
      [] tool_name = "read_file" -> _execute_read_file(working_dir, args, env)
      [] tool_name = "write_file" -> _execute_write_file(working_dir, args, env)
      [] tool_name = "list_files" -> _execute_list_files(working_dir, args, env)
      [] tool_name = "apply_patch" -> _execute_apply_patch(working_dir, args, env)

\* ToolExecutor.execute
execute_uncaught(working_dir, tool_name, arguments, env) ==
    IF tool_name \notin ToolNames
    THEN Return(ToolResult(FALSE, "", Some("Unknown tool: " \o tool_name)), <<>>)
    ELSE handler(tool_name, working_dir, arguments, env)

\* the except clause of execute
caught(out) ==
    IF out.kind = "raise"
    THEN Return(ToolResult(FALSE, "", Some(out.exc)), out.effects)
    ELSE out

execute(working_dir, tool_name, arguments, env) ==
    IF tool_name \notin ToolNames
    THEN Return(ToolResult(FALSE, "", Some("Unknown tool: " \o tool_name)), <<>>)
    ELSE caught(handler(tool_name, working_dir, arguments, env))

----------------------------------------------------------------------------
(* The inputs of the model *)

MaxPathLen == 5

PathChars == {"/", ".", "a"}

Paths == UNION {[1..k -> PathChars] : k \in 0..MaxPathLen}

\* os.path.abspath(working_dir)
WorkingDirs == {<<"/", "a">>, <<"/", "a", "/", "a">>}

EnvOk ==
    [exists |-> TRUE, isfile |-> TRUE, io |-> "ok", tmp_write |-> "ok",
     proc |-> "exit0", stdout |-> <<"o", "k", "\n">>, stderr |-> <<>>,
     content |-> "data",
     entries |-> <<[name |-> "a.txt", isdir |-> FALSE],
                   [name |-> "sub", isdir |-> TRUE]>>]

EnvFail == [EnvOk EXCEPT !.io = "error", !.tmp_write = "error", !.proc = "exit1"]

Envs ==
    LET e == EnvOk
    IN  {e, EnvFail,
         [e EXCEPT !.exists = FALSE, !.isfile = FALSE, !.proc = "exit1",
                   !.stdout = <<"n", "o">>, !.stderr = <<"e", "r", "r">>],
         [e EXCEPT !.isfile = FALSE, !.proc = "exit1", !.stdout = <<>>],
         [e EXCEPT !.isfile = FALSE, !.proc = "timeout"],
         [e EXCEPT !.io = "error", !.tmp_write = "error"],
         [e EXCEPT !.proc = "absent"]}

ExecToolNames == ToolNames \cup {"rm_rf"}

ExecArguments ==
    {NotADict, Dict(<<>>), Dict([command |-> ""]), Dict([command |-> "ls"]),
     Dict([patch |-> "diff"])}
    \cup {Dict([path |-> p]) : p \in Paths}
    \cup {Dict([path |-> p, content |-> "hi", patch |-> "diff"]) : p \in Paths}

\* Agent.__init__: os.path.abspath(working_dir) of the agent
agent_working_dir == <<"/", "a">>

InitialSession(working_dir, system_prompt) ==
    NewSession(Str(working_dir), system_prompt, <<>>, <<0, 0>>, 0)

RunIdle ==
    /\ entry = "run"
    /\ pc = "idle"
    /\ turn_count = 0
    /\ message = None
    /\ idx = 0
    /\ tool_results = <<>>
    /\ turns = <<>>
    /\ result = None
    /\ returned = None
    /\ log = <<>>

----------------------------------------------------------------------------
(* SpecExec: ToolExecutor.execute on every tool name, arguments value and  *)
(* answer of the operating system                                          *)

InitExec ==
    /\ \E wd \in WorkingDirs, name \in ExecToolNames, args \in ExecArguments, env \in Envs :
           exec_in = Some([working_dir |-> wd, tool_name |-> name,
                           arguments |-> args, env |-> env])
    /\ exec_out = None
    /\ session = InitialSession(<<"/", "a">>, "")
    /\ user_calls = 0
    /\ calls_since_clear = 0
    /\ config = [max_turns |-> 0, auto_approve_tools |-> TRUE]
    /\ approval_callback = None
    /\ RunIdle

Execute ==
    /\ exec_in # None
    /\ exec_out = None
    /\ exec_out' = Some(execute(exec_in[1].working_dir, exec_in[1].tool_name,
                                exec_in[1].arguments, exec_in[1].env))
    /\ UNCHANGED <<exec_in, sessionVars, agentVars, runVars>>

NextExec == Execute

SpecExec == InitExec /\ [][NextExec]_vars

\* the path argument of the call in exec_in, if the tool takes one and the
\* call gives one
PathTools == {"read_file", "write_file", "list_files", "apply_patch"}

HasPathArgument ==
    /\ exec_in # None
    /\ exec_in[1].tool_name \in PathTools
    /\ exec_in[1].arguments.kind = "dict"
    /\ "path" \in DOMAIN exec_in[1].arguments.items

\* the root itself or a descendant of it
Contained(working_dir, resolved) ==
    \/ resolved = working_dir
    \/ startswith(resolved, IF endswith(working_dir, <<"/">>) THEN working_dir
                            ELSE working_dir \o <<"/">>)

PathEscapes ==
    /\ HasPathArgument
    /\ ~Contained(exec_in[1].working_dir,
                  normpath(os_path_join(exec_in[1].working_dir,
                                        exec_in[1].arguments.items.path)))

\* C5: a call of read_file, write_file, list_files or apply_patch whose path,
\* joined against the root and normalized, is neither the root nor a
\* descendant of the root is rejected (success = FALSE).
C5_EscapingPathRejected ==
    (exec_out # None /\ PathEscapes) => ~exec_out[1].result.success

\* C6: execute returns a ToolResult for every tool name, arguments value and
\* answer of the operating system, it never raises; a name outside the five
\* tools gets success = FALSE, the error "Unknown tool: {name}" and no
\* filesystem or subprocess action.
C6_ExecuteTotal ==
    exec_out # None =>
        /\ exec_out[1].kind = "return"
        /\ exec_in[1].tool_name \notin ToolNames =>
               /\ ~exec_out[1].result.success
               /\ exec_out[1].result.error = Some("Unknown tool: " \o exec_in[1].tool_name)
               /\ exec_out[1].effects = <<>>

\* a handler raised inside execute, and execute has returned
C6_Witness ==
    /\ exec_out # None
    /\ exec_in[1].tool_name \in ToolNames
    /\ handler(exec_in[1].tool_name, exec_in[1].working_dir,
               exec_in[1].arguments, exec_in[1].env).kind = "raise"
    /\ ~exec_out[1].result.success

----------------------------------------------------------------------------
(* agent.py: what the Model Service returns *)

\* the argument payloads of the tool calls and json.loads of each: a JSON
\* object, another JSON value, or JSONDecodeError
ArgsLs == "{\"command\": \"ls\"}"

ArgsEscape == "{\"path\": \"../aa\", \"content\": \"hi\"}"

ArgsList == "[1]"

ArgsBroken == "{\"command\": "

json_loads(text) ==
    CASE text = ArgsLs -> [ok |-> TRUE, value |-> Dict([command |-> "ls"])]
      [] text = ArgsEscape ->
            [ok |-> TRUE,
             value |-> Dict([path |-> <<".", ".", "/", "a", "a">>, content |-> "hi"])]
      [] text = ArgsList -> [ok |-> TRUE, value |-> NotADict]
      [] text = ArgsBroken -> [ok |-> FALSE, value |-> NotADict]

\* a tool call of the response (tc.id, tc.function.name, tc.function.arguments)
ToolCall(id, name, arguments) ==
    [id |-> id, function |-> [name |-> name, arguments |-> arguments]]

\* response.choices[0].message
Response(content, tool_calls) == [content |-> content, tool_calls |-> tool_calls]

----------------------------------------------------------------------------
(* agent.py: Agent *)

MaxTurnsReached == "Agent reached maximum turn limit."

TurnResult(response, tool_calls, results, finished) ==
    [response |-> response, tool_calls |-> tool_calls,
     tool_results |-> results, finished |-> finished]

\* the list comprehension building tool_calls_data
tool_calls_data(tool_calls) ==
    [i \in 1..Len(tool_calls) |->
        [id |-> tool_calls[i].id,
         type |-> "function",
         function |-> [name |-> tool_calls[i].function.name,
                       arguments |-> tool_calls[i].function.arguments]]]

\* the while test with <= for <
while_test_inclusive(count) == count <= config.max_turns

\* the test of the while loop
while_test(count) == count < config.max_turns

\* f"{result.error}"
format_error(error) == IF error = None THEN "None" ELSE error[1]

\* result_content with the output of a failed call added to the text
result_content_with_output(res) ==
    IF res.success THEN res.output
    ELSE "Error: " \o format_error(res.error) \o "\n" \o res.output

\* result_content of a tool result
result_content(res) ==
    IF res.success THEN res.output ELSE "Error: " \o format_error(res.error)

\* what run_sync returns after the loop over run(): result.response if result else ""
run_sync_return(res) == IF res # None THEN res[1].response ELSE Some("")

LogEntry(call, turn, i, decision) ==
    [call |-> call, turn |-> turn, idx |-> i, decision |-> decision]

\* Agent._execute_tool for the i-th call of the turn: the result, or the
\* exception that leaves it (raised), and the calls made on the approval
\* callback and on the executor. decision is what the callback does when
\* called: "allow", "deny" or "raise".
executed(out, calls) ==
    IF out.kind = "raise"
    THEN [raised |-> "tool", result |-> NoResult, calls |-> calls]
    ELSE [raised |-> "", result |-> out.result, calls |-> calls]

\* _execute_tool running the tool whatever the approval callback answers
_execute_tool_ignoring_denial(tool_call, turn, i, decision, env) ==
    LET parsed == json_loads(tool_call.function.arguments)
        asked == <<LogEntry("gate", turn, i, decision)>>
        ran == <<LogEntry("execute", turn, i, "")>>
        gated == ~config.auto_approve_tools /\ approval_callback # None
    IN  IF ~parsed.ok
        THEN [raised |-> "",
              result |-> ToolResult(FALSE, "",
                  Some("Invalid JSON arguments: " \o tool_call.function.arguments)),
              calls |-> <<>>]
        ELSE IF gated /\ decision = "raise"
        THEN [raised |-> "gate", result |-> NoResult, calls |-> asked]
        ELSE executed(execute(agent_working_dir, tool_call.function.name, parsed.value, env),
                      (IF gated THEN asked ELSE <<>>) \o ran)

\* _execute_tool asking the approval callback whatever auto_approve_tools says
_execute_tool_gate_when_auto(tool_call, turn, i, decision, env) ==
    LET parsed == json_loads(tool_call.function.arguments)
        asked == <<LogEntry("gate", turn, i, decision)>>
        ran == <<LogEntry("execute", turn, i, "")>>
        gated == approval_callback # None
    IN  IF ~parsed.ok
        THEN [raised |-> "",
              result |-> ToolResult(FALSE, "",
                  Some("Invalid JSON arguments: " \o tool_call.function.arguments)),
              calls |-> <<>>]
        ELSE IF gated /\ decision = "raise"
        THEN [raised |-> "gate", result |-> NoResult, calls |-> asked]
        ELSE IF gated /\ decision = "deny"
        THEN [raised |-> "",
              result |-> ToolResult(FALSE, "", Some("Tool execution denied by user")),
              calls |-> asked]
        ELSE executed(execute(agent_working_dir, tool_call.function.name, parsed.value, env),
                      (IF gated THEN asked ELSE <<>>) \o ran)

\* _execute_tool asking the approval callback before it parses the arguments
_execute_tool_gate_before_parse(tool_call, turn, i, decision, env) ==
    LET parsed == json_loads(tool_call.function.arguments)
        asked == <<LogEntry("gate", turn, i, decision)>>
        ran == <<LogEntry("execute", turn, i, "")>>
        gated == ~config.auto_approve_tools /\ approval_callback # None
    IN  IF gated /\ decision = "raise"
        THEN [raised |-> "gate", result |-> NoResult, calls |-> asked]
        ELSE IF gated /\ decision = "deny"
        THEN [raised |-> "",
              result |-> ToolResult(FALSE, "", Some("Tool execution denied by user")),
              calls |-> asked]
        ELSE IF ~parsed.ok
        THEN [raised |-> "",
              result |-> ToolResult(FALSE, "",
                  Some("Invalid JSON arguments: " \o tool_call.function.arguments)),
              calls |-> IF gated THEN asked ELSE <<>>]
        ELSE executed(execute(agent_working_dir, tool_call.function.name, parsed.value, env),
                      (IF gated THEN asked ELSE <<>>) \o ran)

\* _execute_tool without the except clause around json.loads
_execute_tool_decode_error_raised(tool_call, turn, i, decision, env) ==
    LET parsed == json_loads(tool_call.function.arguments)
        asked == <<LogEntry("gate", turn, i, decision)>>
        ran == <<LogEntry("execute", turn, i, "")>>
        gated == ~config.auto_approve_tools /\ approval_callback # None
    IN  IF ~parsed.ok
        THEN [raised |-> "tool", result |-> NoResult, calls |-> <<>>]
        ELSE IF gated /\ decision = "raise"
        THEN [raised |-> "gate", result |-> NoResult, calls |-> asked]
        ELSE IF gated /\ decision = "deny"
        THEN [raised |-> "",
              result |-> ToolResult(FALSE, "", Some("Tool execution denied by user")),
              calls |-> asked]
        ELSE executed(execute(agent_working_dir, tool_call.function.name, parsed.value, env),
                      (IF gated THEN asked ELSE <<>>) \o ran)

_execute_tool(tool_call, turn, i, decision, env) ==
    LET tool_name == tool_call.function.name
        parsed == json_loads(tool_call.function.arguments)
        asked == <<LogEntry("gate", turn, i, decision)>>
        ran == <<LogEntry("execute", turn, i, "")>>
        gated == ~config.auto_approve_tools /\ approval_callback # None
    IN  IF ~parsed.ok
        THEN [raised |-> "",
              result |-> ToolResult(FALSE, "",
                  Some("Invalid JSON arguments: " \o tool_call.function.arguments)),
              calls |-> <<>>]
        ELSE IF gated /\ decision = "raise"
        THEN [raised |-> "gate", result |-> NoResult, calls |-> asked]
        ELSE IF gated /\ decision = "deny"
        THEN [raised |-> "",
              result |-> ToolResult(FALSE, "", Some("Tool execution denied by user")),
              calls |-> asked]
        ELSE executed(execute(agent_working_dir, tool_name, parsed.value, env),
                      (IF gated THEN asked ELSE <<>>) \o ran)

\* Agent._build_system_prompt
_build_system_prompt(system_prompt, working_dir) ==
    system_prompt \o "\n\n\nWorking Directory: " \o Str(working_dir) \o "\n"

\* Agent.__init__ and Agent.reset: the session of the agent
AgentSession ==
    InitialSession(agent_working_dir,
                   _build_system_prompt("You are a helpful coding assistant.",
                                        agent_working_dir))

Stopped == {"done", "aborted", "raised_model", "raised_gate", "raised_tool", "closed"}

\* the tool calls of the response being processed
Calls == IF message = None \/ message[1].tool_calls = None THEN <<>>
         ELSE message[1].tool_calls[1]

\* run(user_input) or run_sync(user_input) is called: up to the while loop
StartRun(e, user_input) ==
    /\ pc \in Stopped \cup {"idle"}
    /\ session' = add_user_message(session, user_input)
    /\ user_calls' = user_calls + 1
    /\ calls_since_clear' = calls_since_clear + 1
    /\ entry' = e
    /\ pc' = "loop"
    /\ turn_count' = 0
    /\ message' = None
    /\ idx' = 0
    /\ tool_results' = <<>>
    /\ turns' = <<>>
    /\ result' = None
    /\ returned' = None
    /\ log' = <<>>
    /\ UNCHANGED <<agentVars, execVars>>

\* the while test holds: turn_count += 1
NextTurn ==
    /\ pc = "loop"
    /\ while_test(turn_count)
    /\ turn_count' = turn_count + 1
    /\ pc' = "awaiting"
    /\ UNCHANGED <<sessionVars, agentVars, execVars, entry, message, idx,
                   tool_results, turns, result, returned, log>>

\* the while test fails: run returns the fixed text, which run_sync drops
LimitReached ==
    /\ pc = "loop"
    /\ ~while_test(turn_count)
    /\ pc' = "aborted"
    /\ returned' = Some(IF entry = "run" THEN Some(MaxTurnsReached)
                        ELSE run_sync_return(result))
    /\ UNCHANGED <<sessionVars, agentVars, execVars, entry, turn_count, message,
                   idx, tool_results, turns, result, log>>

\* _call_model returns a response: the assistant message is appended and,
\* for a final answer, the last TurnResult is yielded
CallModel(resp) ==
    /\ pc = "awaiting"
    /\ log' = Append(log, LogEntry("model", turn_count, 0, ""))
    /\ message' = Some(resp)
    /\ IF TruthyList(resp.tool_calls)
       THEN /\ session' = add_assistant_message(session, resp.content,
                              Some(tool_calls_data(resp.tool_calls[1])))
            /\ tool_results' = <<>>
            /\ idx' = 1
            /\ pc' = "executing"
            /\ UNCHANGED <<turns, result>>
       ELSE LET turn == TurnResult(resp.content, <<>>, <<>>, TRUE)
            IN  /\ session' = add_assistant_message(session, resp.content, None)
                /\ turns' = Append(turns, turn)
                /\ result' = IF entry = "run_sync" THEN Some(turn) ELSE result
                /\ pc' = "yielded"
                /\ UNCHANGED <<tool_results, idx>>
    /\ UNCHANGED <<user_calls, calls_since_clear, agentVars, execVars, entry,
                   turn_count, returned>>

\* a failure of _call_model turned into the turn-limit return
ModelFails_swallowed ==
    /\ pc = "awaiting"
    /\ log' = Append(log, LogEntry("model", turn_count, 0, ""))
    /\ pc' = "aborted"
    /\ returned' = Some(Some(MaxTurnsReached))
    /\ UNCHANGED <<sessionVars, agentVars, execVars, entry, turn_count, message,
                   idx, tool_results, turns, result>>

\* _call_model raises: the exception leaves run (and run_sync)
ModelFails ==
    /\ pc = "awaiting"
    /\ log' = Append(log, LogEntry("model", turn_count, 0, ""))
    /\ pc' = "raised_model"
    /\ UNCHANGED <<sessionVars, agentVars, execVars, entry, turn_count, message,
                   idx, tool_results, turns, result, returned>>

\* the body of the for loop leaving the loop after a failed call
Processed_break_on_failure(tool_call, out) ==
    /\ log' = log \o out.calls
    /\ IF out.raised # ""
       THEN /\ pc' = "raised_" \o out.raised
            /\ UNCHANGED <<session, tool_results, idx>>
       ELSE /\ tool_results' = Append(tool_results, out.result)
            /\ session' = add_tool_result(session, tool_call.id,
                              tool_call.function.name, result_content(out.result))
            /\ idx' = IF out.result.success THEN idx + 1 ELSE Len(Calls) + 1
            /\ pc' = "executing"

\* one pass of the for loop over message.tool_calls
Processed(tool_call, out) ==
    /\ log' = log \o out.calls
    /\ IF out.raised # ""
       THEN /\ pc' = "raised_" \o out.raised
            /\ UNCHANGED <<session, tool_results, idx>>
       ELSE /\ tool_results' = Append(tool_results, out.result)
            /\ session' = add_tool_result(session, tool_call.id,
                              tool_call.function.name, result_content(out.result))
            /\ idx' = idx + 1
            /\ pc' = "executing"

ExecuteTool(decision, env) ==
    /\ pc = "executing"
    /\ idx <= Len(Calls)
    /\ Processed(Calls[idx], _execute_tool(Calls[idx], turn_count, idx, decision, env))
    /\ UNCHANGED <<user_calls, calls_since_clear, agentVars, execVars, entry,
                   turn_count, message, turns, result, returned>>

\* the TurnResult of a batch yielded with finished = True
YieldBatch_marked_finished ==
    /\ pc = "executing"
    /\ idx > Len(Calls)
    /\ LET turn == TurnResult(message[1].content, tool_calls_data(Calls),
                              tool_results, TRUE)
       IN  /\ turns' = Append(turns, turn)
           /\ result' = IF entry = "run_sync" THEN Some(turn) ELSE result
    /\ pc' = "yielded"
    /\ UNCHANGED <<sessionVars, agentVars, execVars, entry, turn_count, message,
                   idx, tool_results, returned, log>>

\* the for loop is over: the TurnResult of the batch is yielded
YieldBatch ==
    /\ pc = "executing"
    /\ idx > Len(Calls)
    /\ LET turn == TurnResult(message[1].content, tool_calls_data(Calls),
                              tool_results, FALSE)
       IN  /\ turns' = Append(turns, turn)
           /\ result' = IF entry = "run_sync" THEN Some(turn) ELSE result
    /\ pc' = "yielded"
    /\ UNCHANGED <<sessionVars, agentVars, execVars, entry, turn_count, message,
                   idx, tool_results, returned, log>>

\* the consumer asks for the next TurnResult after a batch
ResumeAfterBatch ==
    /\ pc = "yielded"
    /\ ~turns[Len(turns)].finished
    /\ pc' = "loop"
    /\ UNCHANGED <<sessionVars, agentVars, execVars, entry, turn_count, message,
                   idx, tool_results, turns, result, returned, log>>

\* the consumer asks for the next TurnResult after the final one: run returns
\* message.content
ReturnFinal ==
    /\ pc = "yielded"
    /\ turns[Len(turns)].finished
    /\ pc' = "done"
    /\ returned' = Some(IF entry = "run" THEN message[1].content
                        ELSE run_sync_return(result))
    /\ UNCHANGED <<sessionVars, agentVars, execVars, entry, turn_count, message,
                   idx, tool_results, turns, result, log>>

\* a consumer of run() stops iterating at a yield (cli.py leaves its for loop
\* when json.loads of a yielded tool call raises)
Abandon ==
    /\ pc = "yielded"
    /\ entry = "run"
    /\ pc' = "closed"
    /\ UNCHANGED <<sessionVars, agentVars, execVars, entry, turn_count, message,
                   idx, tool_results, turns, result, returned, log>>

\* Agent.reset: a fresh session
reset ==
    /\ pc \in Stopped
    /\ session' = AgentSession
    /\ user_calls' = 0
    /\ calls_since_clear' = 0
    /\ entry' = "run"
    /\ pc' = "idle"
    /\ turn_count' = 0
    /\ message' = None
    /\ idx' = 0
    /\ tool_results' = <<>>
    /\ turns' = <<>>
    /\ result' = None
    /\ returned' = None
    /\ log' = <<>>
    /\ UNCHANGED <<agentVars, execVars>>

----------------------------------------------------------------------------
(* Spec: one run of the turn loop on a fresh agent, for every               *)
(* configuration, every response of the Model Service, every decision of   *)
(* the approval callback and a passing and a failing operating system      *)

MaxTurns == 2

UserInputs == {"hi"}

tcA == ToolCall("call_a", "shell", ArgsLs)

tcB == ToolCall("call_b", "write_file", ArgsEscape)

tcC == ToolCall("call_c", "read_file", ArgsBroken)

tcD == ToolCall("call_d", "rm_rf", ArgsList)

Finals == {Response(Some("done"), None), Response(None, Some(<<>>))}

Batches ==
    {Response(None, Some(<<tcA>>)),
     Response(Some("working"), Some(<<tcC, tcA>>)),
     Response(None, Some(<<tcB, tcD>>)),
     Response(Some(""), Some(<<tcA, tcC, tcB>>))}

Decisions == {"allow", "deny", "raise"}

LoopEnvs == {EnvOk, EnvFail}

Init ==
    /\ session = AgentSession
    /\ user_calls = 0
    /\ calls_since_clear = 0
    /\ config \in [max_turns : 0..MaxTurns, auto_approve_tools : BOOLEAN]
    /\ approval_callback \in {None, Some("callback")}
    /\ RunIdle
    /\ exec_in = None
    /\ exec_out = None

Next ==
    \/ \E e \in {"run", "run_sync"}, u \in UserInputs : pc = "idle" /\ StartRun(e, u)
    \/ NextTurn
    \/ LimitReached
    \/ \E resp \in Finals \cup Batches : CallModel(resp)
    \/ ModelFails
    \/ \E d \in Decisions, env \in LoopEnvs : ExecuteTool(d, env)
    \/ YieldBatch
    \/ ResumeAfterBatch
    \/ ReturnFinal
    \/ Abandon
    \/ reset

Spec == Init /\ [][Next]_vars

----------------------------------------------------------------------------
(* The Session operations a caller makes between runs *)

NoRunInFlight == pc \in Stopped \cup {"idle"}

AddUserMessage(content) ==
    /\ NoRunInFlight
    /\ session' = add_user_message(session, content)
    /\ user_calls' = user_calls + 1
    /\ calls_since_clear' = calls_since_clear + 1
    /\ UNCHANGED <<agentVars, runVars, execVars>>

AddAssistantMessage(content, tool_calls) ==
    /\ NoRunInFlight
    /\ session' = add_assistant_message(session, content, tool_calls)
    /\ UNCHANGED <<user_calls, calls_since_clear, agentVars, runVars, execVars>>

AddToolResult(tool_call_id, name, text) ==
    /\ NoRunInFlight
    /\ session' = add_tool_result(session, tool_call_id, name, text)
    /\ UNCHANGED <<user_calls, calls_since_clear, agentVars, runVars, execVars>>

Compact(summary) ==
    /\ NoRunInFlight
    /\ session' = compact(session, summary)
    /\ UNCHANGED <<user_calls, calls_since_clear, agentVars, runVars, execVars>>

Clear ==
    /\ NoRunInFlight
    /\ session' = clear(session)
    /\ calls_since_clear' = 0
    /\ UNCHANGED <<user_calls, agentVars, runVars, execVars>>

\* session.save(path) and then session = Session.load(path); the loaded
\* session carries on the counts of the saved one
SaveLoad ==
    /\ NoRunInFlight
    /\ session' = load(save(session))
    /\ UNCHANGED <<user_calls, calls_since_clear, agentVars, runVars, execVars>>

Summaries == {"S"}

----------------------------------------------------------------------------
(* SpecSession: every sequence of calls on a Session, with and without a   *)
(* system prompt                                                           *)

MaxMessages == 5

MaxUserCalls == 3

SystemPrompts == {"", "Be brief."}

AssistantInputs ==
    {<<Some("a"), None>>, <<None, Some(<<ToolCall("call_a", "shell", ArgsLs)>>)>>,
     <<Some(""), Some(<<>>)>>}

ToolInputs == {<<"call_a", "shell", "ok">>, <<"", "", "">>}

InitSession ==
    /\ \E p \in SystemPrompts : session = InitialSession(agent_working_dir, p)
    /\ user_calls = 0
    /\ calls_since_clear = 0
    /\ config = [max_turns |-> 0, auto_approve_tools |-> TRUE]
    /\ approval_callback = None
    /\ RunIdle
    /\ exec_in = None
    /\ exec_out = None

NextSession ==
    \/ \E u \in UserInputs :
           /\ Len(session.messages) < MaxMessages
           /\ user_calls < MaxUserCalls
           /\ AddUserMessage(u)
    \/ \E a \in AssistantInputs :
           Len(session.messages) < MaxMessages /\ AddAssistantMessage(a[1], a[2])
    \/ \E t \in ToolInputs :
           Len(session.messages) < MaxMessages /\ AddToolResult(t[1], t[2], t[3])
    \/ \E summary \in Summaries : Compact(summary)
    \/ Clear
    \/ SaveLoad

SpecSession == InitSession /\ [][NextSession]_vars

----------------------------------------------------------------------------
(* SpecHistory: several runs of the turn loop on one session, with         *)
(* compact, clear and save / load between the runs                         *)

MaxRuns == 2

HistoryResponses ==
    {Response(Some("done"), None), Response(None, Some(<<tcA>>)),
     Response(Some("working"), Some(<<tcA, tcC, tcB>>))}

InitHistory ==
    /\ session = AgentSession
    /\ user_calls = 0
    /\ calls_since_clear = 0
    /\ config \in [max_turns : 0..MaxTurns, auto_approve_tools : {TRUE}]
    /\ approval_callback = None
    /\ RunIdle
    /\ exec_in = None
    /\ exec_out = None

NextHistory ==
    \/ \E e \in {"run", "run_sync"}, u \in UserInputs :
           user_calls < MaxRuns /\ StartRun(e, u)
    \/ NextTurn
    \/ LimitReached
    \/ \E resp \in HistoryResponses : CallModel(resp)
    \/ ModelFails
    \/ ExecuteTool("allow", EnvOk)
    \/ YieldBatch
    \/ ResumeAfterBatch
    \/ ReturnFinal
    \/ Abandon
    \/ \E summary \in Summaries : Compact(summary)
    \/ Clear
    \/ SaveLoad

SpecHistory == InitHistory /\ [][NextHistory]_vars

----------------------------------------------------------------------------
(* What the claims speak of *)

\* the calls of the run on the Model Service, the approval callback and the
\* executor
ModelCalls == Cardinality({i \in DOMAIN log : log[i].call = "model"})

Asked(turn, i) ==
    \E j \in DOMAIN log : log[j].call = "gate" /\ log[j].turn = turn /\ log[j].idx = i

Denied(turn, i) ==
    \E j \in DOMAIN log :
        /\ log[j].call = "gate" /\ log[j].turn = turn /\ log[j].idx = i
        /\ log[j].decision = "deny"

Executed(turn, i) ==
    \E j \in DOMAIN log : log[j].call = "execute" /\ log[j].turn = turn /\ log[j].idx = i

Malformed(tool_call) == ~json_loads(tool_call.function.arguments).ok

\* a response with tool calls is being processed or has just been yielded
InBatch ==
    \/ pc \in {"executing", "raised_gate", "raised_tool"}
    \/ pc = "yielded" /\ ~turns[Len(turns)].finished

BatchYielded == pc = "yielded" /\ ~turns[Len(turns)].finished

\* the place in the session of the assistant message of the batch, and the
\* message appended for its i-th tool call
AssistantAt == Len(session.messages) - (idx - 1)

ToolMessage(i) == session.messages[AssistantAt + i]

\* C1: a run with max_turns = N calls the Model Service at most N times; a
\* run that ends without a final answer, a failure or an abandoned consumer
\* has made exactly N model calls, yielded N batches and is Aborted.
C1_ModelCallsBounded ==
    /\ ModelCalls <= config.max_turns
    /\ pc = "aborted" =>
           /\ ModelCalls = config.max_turns
           /\ Len(turns) = config.max_turns
           /\ \A t \in DOMAIN turns : ~turns[t].finished
    /\ (pc = "done" => \E t \in DOMAIN turns : turns[t].finished)

C1_Witness ==
    pc = "aborted" /\ config.max_turns >= 2 /\ ModelCalls = config.max_turns

\* C2: when the run ends because max_turns is exhausted, the text returned
\* to the caller of run and of run_sync is the fixed sentinel string.
C2_SentinelSurfaced ==
    pc = "aborted" => returned = Some(Some(MaxTurnsReached))

\* C3: for a response with tool calls r1..rk the session ends with one
\* assistant message bundling r1..rk followed by one tool message per call
\* processed so far, the i-th bound to ri's id and name and holding its
\* result, in the order of the response; when the batch is yielded all k are
\* there.
C3_BatchAppendedInOrder ==
    InBatch =>
        /\ idx - 1 <= Len(Calls)
        /\ AssistantAt >= 1
        /\ session.messages[AssistantAt].role = "assistant"
        /\ session.messages[AssistantAt].content = message[1].content
        /\ session.messages[AssistantAt].tool_calls # None
        /\ Len(session.messages[AssistantAt].tool_calls[1]) = Len(Calls)
        /\ \A i \in 1..Len(Calls) :
               /\ session.messages[AssistantAt].tool_calls[1][i].id = Calls[i].id
               /\ session.messages[AssistantAt].tool_calls[1][i].function = Calls[i].function
        /\ Len(tool_results) = idx - 1
        /\ \A i \in 1..(idx - 1) :
               /\ ToolMessage(i).role = "tool"
               /\ ToolMessage(i).tool_call_id = Some(Calls[i].id)
               /\ ToolMessage(i).name = Some(Calls[i].function.name)
               /\ ToolMessage(i).content = Some(result_content(tool_results[i]))
        /\ (BatchYielded => idx - 1 = Len(Calls))

\* a batch of three with a call that succeeded and calls that failed
C3_Witness ==
    /\ BatchYielded
    /\ Len(Calls) = 3
    /\ tool_results[1].success
    /\ ~tool_results[2].success
    /\ ~tool_results[3].success

\* C7 as the spec words it: a denied call gets ToolResult(success = FALSE,
\* error = "denied"), the executor is not invoked for it and its tool message
\* is appended.
C7_DeniedResult ==
    InBatch =>
        \A i \in 1..Len(tool_results) :
            Denied(turn_count, i) =>
                /\ tool_results[i] = ToolResult(FALSE, "", Some("denied"))
                /\ ~Executed(turn_count, i)
                /\ ToolMessage(i).tool_call_id = Some(Calls[i].id)

\* C7, amended: a denied call gets ToolResult(success = FALSE, output = "",
\* error = "Tool execution denied by user"), the executor is not invoked for
\* it, and its tool message, "Error: Tool execution denied by user", is
\* appended.
C7_DeniedNotExecuted ==
    InBatch =>
        \A i \in 1..Len(tool_results) :
            Denied(turn_count, i) =>
                /\ ~config.auto_approve_tools
                /\ tool_results[i] = ToolResult(FALSE, "", Some("Tool execution denied by user"))
                /\ ~Executed(turn_count, i)
                /\ ToolMessage(i).role = "tool"
                /\ ToolMessage(i).tool_call_id = Some(Calls[i].id)
                /\ ToolMessage(i).content = Some("Error: Tool execution denied by user")

C7_Witness ==
    /\ BatchYielded
    /\ Len(Calls) = 2
    /\ Denied(turn_count, 1)
    /\ Executed(turn_count, 2)

\* a yielded batch of the run held a tool call with an unparsable payload,
\* respectively a failed result
TurnHadMalformed(t) ==
    \E i \in DOMAIN turns[t].tool_calls :
        ~json_loads(turns[t].tool_calls[i].function.arguments).ok

TurnHadFailure(t) ==
    \E i \in DOMAIN turns[t].tool_results : ~turns[t].tool_results[i].success

\* C8 as the spec words it: a call with an unparsable payload gets a failed
\* result whose error reads "invalid arguments: ...".
C8_InvalidArgumentsResult ==
    InBatch =>
        \A i \in 1..Len(tool_results) :
            Malformed(Calls[i]) =>
                /\ ~tool_results[i].success
                /\ tool_results[i].error # None
                /\ startswith(tool_results[i].error[1], "invalid arguments: ")

\* what holds of the calls with an unparsable payload processed so far
MalformedAnswered ==
    InBatch =>
        \A i \in 1..Len(tool_results) :
            Malformed(Calls[i]) =>
                /\ tool_results[i] =
                       ToolResult(FALSE, "",
                           Some("Invalid JSON arguments: " \o Calls[i].function.arguments))
                /\ ~Asked(turn_count, i)
                /\ ~Executed(turn_count, i)
                /\ ToolMessage(i).role = "tool"
                /\ ToolMessage(i).tool_call_id = Some(Calls[i].id)
                /\ ToolMessage(i).name = Some(Calls[i].function.name)
                /\ ToolMessage(i).content =
                       Some("Error: Invalid JSON arguments: " \o Calls[i].function.arguments)

\* the steps of the loop from a batch on: the next call of the batch, the
\* yield after the last one, the while test and the next model call
BatchGoesOn ==
    /\ (pc = "executing" /\ idx > Len(Calls)) => pc' = "yielded"
    /\ (BatchYielded /\ pc' # "closed") => pc' = "loop"
    /\ (pc = "loop" /\ turn_count < config.max_turns) => pc' = "awaiting"
    /\ pc = "awaiting" =>
           /\ Len(log') = Len(log) + 1
           /\ log'[Len(log')].call = "model"

\* C8, amended: a call whose payload json.loads rejects does not end the
\* loop: its result is ToolResult(success = FALSE, output = "", error =
\* "Invalid JSON arguments: " + payload), reached without the approval
\* callback or the executor; the result is appended as a tool message bound
\* to the call's id; the for loop goes on to the next call, the batch is
\* yielded with all its results and the loop goes on to the next model call.
C8_MalformedArguments ==
    /\ [](MalformedAnswered /\ (BatchYielded => Len(tool_results) = Len(Calls)))
    /\ [][/\ (pc = "executing" /\ idx <= Len(Calls) /\ Malformed(Calls[idx])) =>
                 /\ pc' = "executing"
                 /\ idx' = idx + 1
                 /\ Len(session'.messages) = Len(session.messages) + 1
          /\ BatchGoesOn]_vars

\* the model was called again after a batch with an unparsable payload
C8_Witness ==
    \E t \in DOMAIN turns :
        /\ TurnHadMalformed(t)
        /\ Len(turns[t].tool_calls) = 3
        /\ ModelCalls > t

\* C9: a failed tool call never ends the loop and never skips later calls:
\* each step of the for loop processes the call at idx and moves to idx + 1,
\* whatever the result (only an exception of the approval callback leaves
\* the loop); a yielded batch holds one result per call, in order; and from
\* the batch the loop goes to the while test and, when max_turns allows, to
\* the next model call.
C9_FailuresDoNotStopTheLoop ==
    /\ [](/\ BatchYielded =>
                 /\ Len(tool_results) = Len(Calls)
                 /\ turns[Len(turns)].tool_results = tool_results
                 /\ Len(turns[Len(turns)].tool_calls) = Len(Calls)
          /\ InBatch =>
                 /\ Len(tool_results) = idx - 1
                 /\ \A i \in 1..Len(tool_results) :
                        \/ Executed(turn_count, i)
                        \/ Denied(turn_count, i)
                        \/ Malformed(Calls[i]))
    /\ [][/\ (pc = "executing" /\ idx <= Len(Calls)) =>
                 /\ pc' \in {"executing", "raised_gate"}
                 /\ pc' = "executing" =>
                        /\ idx' = idx + 1
                        /\ tool_results' = Append(tool_results, tool_results'[idx])
                        /\ Len(session'.messages) = Len(session.messages) + 1
          /\ BatchGoesOn]_vars

\* a batch whose first call failed and whose second call succeeded, with
\* the model called again after it
C9_Witness ==
    \E t \in DOMAIN turns :
        /\ Len(turns[t].tool_results) = 2
        /\ ~turns[t].tool_results[1].success
        /\ turns[t].tool_results[2].success
        /\ ModelCalls > t

\* the tool message at place k answers a request of the nearest assistant
\* message before it, with tool messages only in between
BoundToAssistant(messages, k) ==
    \E a \in 1..(k - 1) :
        /\ messages[a].role = "assistant"
        /\ \A j \in (a + 1)..(k - 1) : messages[j].role = "tool"
        /\ messages[a].tool_calls # None
        /\ \E c \in DOMAIN messages[a].tool_calls[1] :
               Some(messages[a].tool_calls[1][c].id) = messages[k].tool_call_id

\* C4: whatever runs, compactions, clears and save/load round trips came
\* before, every tool message of the session carries the id of a request of
\* the nearest preceding assistant message, with only tool messages between
\* the two.
C4_ToolMessagesBound ==
    \A k \in DOMAIN session.messages :
        session.messages[k].role = "tool" => BoundToAssistant(session.messages, k)

\* C10 as the spec words it: turn_count is the number of add_user_message
\* calls made on the session so far.
C10_TurnCountIsUserCalls == session.turn_count = user_calls

\* C10, amended: turn_count is the number of add_user_message calls made
\* since the session was created or last cleared; add_assistant_message,
\* add_tool_result, compact and a save/load round trip leave it alone and
\* clear sets it to 0.
C10_TurnCountSinceClear == session.turn_count = calls_since_clear

\* a user message was added after a clear that followed earlier ones
C10_Witness ==
    /\ calls_since_clear >= 1
    /\ user_calls > calls_since_clear
    /\ session.turn_count = calls_since_clear

\* the system message __post_init__ inserts for the session's prompt
SystemMessage == Message("system", Some(session.system_prompt), None, None, None)

\* C11: a session created with a non-empty system prompt starts, after any
\* runs, compactions, clears and save/load round trips, with the system
\* message carrying the prompt, and holds that message exactly once.
C11_LeadingSystemOnce ==
    session.system_prompt # "" =>
        /\ session.messages # <<>>
        /\ session.messages[1] = SystemMessage
        /\ Cardinality({i \in DOMAIN session.messages :
                            session.messages[i] = SystemMessage}) = 1

\* a compaction of more than 10 messages has dropped history and kept the
\* system message, and the kept slice starts at a tool message
C11_Witness ==
    /\ session.system_prompt # ""
    /\ Len(session.messages) = 12
    /\ session.messages[1] = SystemMessage
    /\ \E summary \in Summaries : session.messages[2] = CompactionMessage(summary)
    /\ session.messages[3].role = "tool"

\* the messages after the leading system message
Prior(messages) ==
    IF messages # <<>> /\ messages[1].role = "system" THEN Tail(messages) ELSE messages

Min(a, b) == IF a <= b THEN a ELSE b

\* C12: compact on a session with n previous messages, n <= 10 included,
\* leaves the leading system message if there is one, the summary message
\* and the last min(10, n) previous messages.
C12_CompactKeepsMin ==
    [][\A summary \in Summaries :
          Compact(summary) =>
              session'.messages =
                  LeadingSystem(session) \o <<CompactionMessage(summary)>>
                  \o LastN(Prior(session.messages), Min(10, Len(Prior(session.messages))))]_vars

\* C13: compact(S) on a session holding the system message and more than 10
\* further messages leaves 12 messages: the system message, the summary
\* message wrapping S and the last 10 previous messages, unaltered and in
\* their order.
C13_CompactKeepsLastTen ==
    [][\A summary \in Summaries :
          (/\ Compact(summary)
           /\ LeadingSystem(session) # <<>>
           /\ Len(session.messages) - 1 > 10) =>
              /\ Len(session'.messages) = 12
              /\ session'.messages[1] = session.messages[1]
              /\ session'.messages[2] =
                     Message("system",
                             Some("[CONVERSATION SUMMARY]\n" \o summary \o "\n[END SUMMARY]"),
                             None, None, None)
              /\ \A i \in 1..10 :
                     session'.messages[2 + i] =
                         session.messages[Len(session.messages) - 10 + i]]_vars

\* a compacted session of 12 messages whose kept slice runs from an
\* assistant message to a tool message
C13_Witness ==
    /\ Len(session.messages) = 12
    /\ session.messages[1] = SystemMessage
    /\ \E summary \in Summaries : session.messages[2] = CompactionMessage(summary)
    /\ session.messages[3].role = "assistant"
    /\ session.messages[12].role = "tool"

\* the optional fields of a Message
OptionalFields == {"content", "tool_calls", "tool_call_id", "name"}

\* C14: the wire projection lists the messages in call order, and an
\* optional field is in the projected object exactly when the call set it,
\* an empty string or an empty list included, with the value it was set to.
C14_ProjectionKeepsSetFields ==
    /\ Len(get_api_messages(session)) = Len(session.messages)
    /\ \A i \in DOMAIN session.messages :
           /\ get_api_messages(session)[i].role = session.messages[i].role
           /\ \A f \in OptionalFields :
                  /\ (f \in DOMAIN get_api_messages(session)[i])
                         <=> (session.messages[i][f] # None)
                  /\ (f \in DOMAIN get_api_messages(session)[i]) =>
                         get_api_messages(session)[i][f] = session.messages[i][f][1]

\* C15: save followed by load gives back the working root, the system
\* prompt, turn_count and the same messages, entry by entry, with no
\* further system message.
C15_SaveLoadIdentity ==
    [][SaveLoad =>
          /\ session'.working_dir = session.working_dir
          /\ session'.system_prompt = session.system_prompt
          /\ session'.turn_count = session.turn_count
          /\ Len(session'.messages) = Len(session.messages)
          /\ \A i \in DOMAIN session.messages :
                 session'.messages[i] = session.messages[i]]_vars

\* C16: a step in which the Model Service call gives no response (no
\* assistant message is appended) ends the run with the exception: nothing
\* is returned, no TurnResult is yielded for it and the session is as it
\* was before the call; afterwards the run makes no model call and executes
\* no tool.
C16_ModelFailurePropagates ==
    /\ [](pc = "raised_model" =>
            /\ returned = None
            /\ log[Len(log)].call = "model"
            /\ Len(turns) = ModelCalls - 1
            /\ \A t \in DOMAIN turns : ~turns[t].finished
            /\ session.messages[Len(session.messages)].role \in {"user", "tool"})
    /\ [][/\ (pc = "awaiting" /\ session' = session) =>
                 /\ pc' = "raised_model"
                 /\ returned' = None
                 /\ turns' = turns
                 /\ result' = result
          /\ pc = "raised_model" => (pc' = "idle" /\ log' = <<>>)]_vars

\* the second model call of a run failed, after a batch of tool calls
C16_Witness ==
    /\ pc = "raised_model"
    /\ ModelCalls = 2
    /\ Len(turns) = 1
    /\ session.messages[Len(session.messages)].role = "tool"

\* the results execute can give for a tool call
ExecutorResults(tool_call) ==
    {execute(agent_working_dir, tool_call.function.name,
             json_loads(tool_call.function.arguments).value, env).result :
         env \in LoopEnvs}

\* C17: the approval callback is called only when auto_approve_tools is
\* false and a callback is installed; with auto-approval, and without a
\* callback, every call with parsable arguments reaches the executor and
\* gets the executor's result, as it does when the callback allows it.
C17_GateOnlyWhenRequired ==
    /\ (config.auto_approve_tools \/ approval_callback = None) =>
           /\ \A j \in DOMAIN log : log[j].call # "gate"
           /\ pc # "raised_gate"
    /\ InBatch =>
           \A i \in 1..Len(tool_results) :
               (/\ ~Malformed(Calls[i])
                /\ \/ config.auto_approve_tools
                   \/ approval_callback = None
                   \/ Asked(turn_count, i) /\ ~Denied(turn_count, i)) =>
                   /\ Executed(turn_count, i)
                   /\ tool_results[i] \in ExecutorResults(Calls[i])

\* a batch was executed with a callback installed and auto-approval on
C17_Witness ==
    /\ config.auto_approve_tools
    /\ approval_callback # None
    /\ BatchYielded
    /\ Len(tool_results) >= 2
    /\ \E i \in 1..Len(tool_results) : Executed(turn_count, i)

\* C20: the TurnResults of a run are one unfinished event per processed
\* batch, yielded after the batch's tool messages are appended and holding
\* its requests and results in the same order and number; a run that is
\* done has yielded exactly one finished event, the last one, with empty
\* lists and the final text, which is the text returned; an aborted run has
\* yielded no finished event.
C20_TurnEvents ==
    /\ \A t \in DOMAIN turns :
           IF turns[t].finished
           THEN /\ t = Len(turns)
                /\ turns[t].tool_calls = <<>>
                /\ turns[t].tool_results = <<>>
                /\ pc \in {"yielded", "done", "closed"}
           ELSE /\ turns[t].tool_calls # <<>>
                /\ Len(turns[t].tool_calls) = Len(turns[t].tool_results)
    /\ Len(turns) \in {ModelCalls - 1, ModelCalls}
    /\ BatchYielded =>
           /\ Len(turns) = ModelCalls
           /\ turns[Len(turns)].response = message[1].content
           /\ \A i \in DOMAIN turns[Len(turns)].tool_calls :
                  /\ turns[Len(turns)].tool_calls[i].id = Calls[i].id
                  /\ turns[Len(turns)].tool_results[i] = tool_results[i]
                  /\ ToolMessage(i).tool_call_id = Some(Calls[i].id)
                  /\ ToolMessage(i).content = Some(result_content(tool_results[i]))
    /\ pc = "done" =>
           /\ turns # <<>>
           /\ turns[Len(turns)].finished
           /\ Len(turns) = ModelCalls
           /\ turns[Len(turns)].response = message[1].content
           /\ returned = Some(turns[Len(turns)].response)
    /\ pc = "aborted" =>
           /\ Len(turns) = ModelCalls
           /\ \A t \in DOMAIN turns : ~turns[t].finished

\* run_sync is done after a batch of three calls and a final answer
C20_Witness ==
    /\ pc = "done"
    /\ entry = "run_sync"
    /\ Len(turns) = 2
    /\ Len(turns[1].tool_results) = 3
    /\ returned = Some(Some("done"))

\* the subprocesses a call of execute has started
Spawned(out) == {i \in DOMAIN out.effects : out.effects[i].op = "subprocess"}

\* C18: every subprocess the executor starts runs with the configured root
\* as its working directory, and only shell and apply_patch start one.
C18_SubprocessInRoot ==
    exec_out # None =>
        /\ \A i \in Spawned(exec_out[1]) :
               exec_out[1].effects[i].cwd = Some(exec_in[1].working_dir)
        /\ Spawned(exec_out[1]) # {} => exec_in[1].tool_name \in {"shell", "apply_patch"}

\* C19: a call of read_file, write_file, list_files or apply_patch whose
\* path escapes the root is rejected before any filesystem access or side
\* effect: it makes no existence check, read, write, directory creation,
\* temporary file or subprocess.
C19_EscapeHasNoEffect ==
    (exec_out # None /\ PathEscapes) =>
        /\ ~exec_out[1].result.success
        /\ exec_out[1].effects = <<>>

----------------------------------------------------------------------------
(* SpecRuns: several runs of the turn loop on one session with the         *)
(* approval callback installed, as run_interactive makes them: it catches  *)
(* the exception of a run and starts the next one on the same session      *)

InitRuns ==
    /\ session = AgentSession
    /\ user_calls = 0
    /\ calls_since_clear = 0
    /\ config \in [max_turns : 1..MaxTurns, auto_approve_tools : {FALSE}]
    /\ approval_callback = Some("callback")
    /\ RunIdle
    /\ exec_in = None
    /\ exec_out = None

NextRuns ==
    \/ \E e \in {"run", "run_sync"}, u \in UserInputs :
           user_calls < MaxRuns /\ StartRun(e, u)
    \/ NextTurn
    \/ LimitReached
    \/ \E resp \in HistoryResponses : CallModel(resp)
    \/ ModelFails
    \/ \E d \in Decisions : ExecuteTool(d, EnvOk)
    \/ YieldBatch
    \/ ResumeAfterBatch
    \/ ReturnFinal
    \/ Abandon

SpecRuns == InitRuns /\ [][NextRuns]_vars

\* the request c of the assistant message at place a has its result: a
\* tool message bound to its id in the run of tool messages after a
RequestAnswered(messages, a, c) ==
    \E k \in (a + 1)..Len(messages) :
        /\ messages[k].role = "tool"
        /\ messages[k].tool_call_id = Some(messages[a].tool_calls[1][c].id)
        /\ \A j \in (a + 1)..k : messages[j].role = "tool"

\* no assistant message of the session holds a request without its result
NoRequestUnanswered ==
    \A a \in DOMAIN session.messages :
        (session.messages[a].role = "assistant" /\ session.messages[a].tool_calls # None) =>
            \A c \in DOMAIN session.messages[a].tool_calls[1] :
                RequestAnswered(session.messages, a, c)

\* C21: whenever run has yielded a TurnResult, every request of every
\* assistant message of the session has its tool message, so a caller that
\* stops there leaves no request unanswered.
C21_CompleteAtYield == pc = "yielded" => NoRequestUnanswered

\* C22: clear leaves the first message alone when its role is system and
\* no message otherwise, sets turn_count to 0 and keeps working_dir,
\* system_prompt and created_at; the next add_user_message makes
\* turn_count 1.
C22_ClearFrame ==
    /\ [](calls_since_clear = 0 => session.turn_count = 0)
    /\ [][/\ Clear =>
                 /\ session'.messages =
                        (IF session.messages # <<>> /\ session.messages[1].role = "system"
                         THEN <<session.messages[1]>> ELSE <<>>)
                 /\ session'.turn_count = 0
                 /\ session'.working_dir = session.working_dir
                 /\ session'.system_prompt = session.system_prompt
                 /\ session'.created_at = session.created_at
          /\ ((\E u \in UserInputs : AddUserMessage(u)) /\ calls_since_clear = 0) =>
                 session'.turn_count = 1]_vars

\* a session with a system prompt was cleared after two user messages and
\* then got a user message
C22_Witness ==
    /\ user_calls = 3
    /\ calls_since_clear = 1
    /\ session.turn_count = 1
    /\ Len(session.messages) = 2
    /\ session.messages[1] = SystemMessage
    /\ session.messages[2].role = "user"

\* the temporary files a call has created, and those it has removed
Created(out) == {i \in DOMAIN out.effects : out.effects[i].op = "mktemp"}

Removed(out, i) ==
    \E j \in DOMAIN out.effects :
        /\ j > i
        /\ out.effects[j].op = "unlink"
        /\ out.effects[j].target = out.effects[i].target

\* C23: when execute has returned from apply_patch, every temporary patch
\* file the call created has been removed.
C23_PatchFileRemoved ==
    (exec_out # None /\ exec_in[1].tool_name = "apply_patch") =>
        \A i \in Created(exec_out[1]) : Removed(exec_out[1], i)

\* the approval callback is to be asked
ApprovalRequired == ~config.auto_approve_tools /\ approval_callback # None

\* every call of the executor for the i-th request of the turn comes after
\* a call of the approval callback for it that allowed it
GateBeforeExecute(turn, i) ==
    \A e \in DOMAIN log :
        (log[e].call = "execute" /\ log[e].turn = turn /\ log[e].idx = i) =>
            \E g \in 1..(e - 1) :
                /\ log[g].call = "gate" /\ log[g].turn = turn /\ log[g].idx = i
                /\ log[g].decision = "allow"

\* C24: with approval required, the arguments are parsed before the
\* approval callback is asked: a request whose payload does not parse gets
\* its failed result with neither the callback nor the executor called; a
\* request whose payload parses goes to the callback first, and to the
\* executor only after the callback allowed it.
C24_ParseBeforeGate ==
    (ApprovalRequired /\ InBatch) =>
        /\ \A i \in 1..Len(tool_results) :
               IF Malformed(Calls[i])
               THEN /\ ~Asked(turn_count, i)
                    /\ ~Executed(turn_count, i)
                    /\ ~tool_results[i].success
               ELSE /\ Asked(turn_count, i)
                    /\ GateBeforeExecute(turn_count, i)
                    /\ Executed(turn_count, i) <=> ~Denied(turn_count, i)
        /\ pc = "raised_gate" =>
               /\ ~Malformed(Calls[idx])
               /\ Asked(turn_count, idx)
               /\ ~Executed(turn_count, idx)

\* a batch with an allowed call, a call that does not parse and a denied
\* call, approval being required
C24_Witness ==
    /\ ApprovalRequired
    /\ BatchYielded
    /\ Len(tool_results) = 3
    /\ Executed(turn_count, 1)
    /\ Malformed(Calls[2])
    /\ Denied(turn_count, 3)

\* C25: the tool message appended for a call holds the result's output when
\* the call succeeded and "Error: " followed by the result's error when it
\* failed; the output of a failed call is not in the message.
C25_FailureNarrated ==
    InBatch =>
        \A i \in 1..Len(tool_results) :
            /\ tool_results[i].success =>
                   ToolMessage(i).content = Some(tool_results[i].output)
            /\ ~tool_results[i].success =>
                   /\ tool_results[i].error # None
                   /\ ToolMessage(i).content = Some("Error: " \o tool_results[i].error[1])

\* a shell command that exited non-zero after writing to stdout, followed by
\* a call that succeeded
C25_Witness ==
    /\ InBatch
    /\ Len(tool_results) >= 2
    /\ ~tool_results[1].success
    /\ tool_results[1].output = "ok"
    /\ tool_results[1].error = Some("Exit code: 1")
    /\ ToolMessage(1).content = Some("Error: Exit code: 1")
    /\ tool_results[Len(tool_results)].success

\* C26: when a run has stopped, by a final answer, the turn limit, a failure
\* of the Model Service or an exception of the approval callback, no
\* assistant message of the session holds a request without its result.
C26_NoUnansweredAtStop ==
    pc \in {"done", "aborted", "raised_model", "raised_gate"} => NoRequestUnanswered

====
